---- MODULE Spec2Model ----
(***************************************************************************)
(* Web-Buddy event-driven client (src/python/src/event_driven_client.py):  *)
(* the asynchronous client EventDrivenWebBuddyClient, the synchronous      *)
(* client SyncEventDrivenWebBuddyClient, their transport (_make_request),  *)
(* send_event, send_events, execute_full_chatgpt_workflow, ping,           *)
(* download_multiple_google_images and close.                              *)
(*                                                                         *)
(* A coroutine is modelled as a task whose steps are the stretches of code *)
(* between two awaits; the server is the environment, which answers each   *)
(* HTTP attempt with an outcome and takes some time to do it.              *)
(***************************************************************************)
EXTENDS Integers, Sequences, FiniteSets, TLC

VARIABLES
    config,     \* the ClientConfig shared by the two clients of a run
    now,        \* time.time() * 1000, in whole milliseconds
    session,    \* async client's self._session (cur: 0 is None, n > 0 the n-th
                \* ClientSession), the number of sessions created so far, the
                \* sessions close() has closed, and whether a close() is suspended
    tasks,      \* the send_event / _make_request invocations, one per slot
    script,     \* script[s][k]: how the server answered the k-th attempt for slot s
    env,        \* the run's environment: the faults the server can show, the time
                \* it takes to answer, and which correlation channel answers
                \* _wait_for_event_response
    call,       \* the top-level call in progress (ping, send_event, send_events)
    wf          \* the frame of execute_full_chatgpt_workflow

vars == <<config, now, session, tasks, script, env, call, wf>>

(***************************************************************************)
(* Bounds of the model.                                                    *)
(***************************************************************************)
MaxRetries == 3      \* largest configured retry count
MaxBatch == 3        \* longest event list handed to send_events
MaxCloses == 2       \* most sessions an application closes in a run

(***************************************************************************)
(* Python values.  A str is a sequence of pieces, so that an f-string is   *)
(* the concatenation of its pieces; '' is the empty sequence and None is a *)
(* value no str equals.                                                    *)
(***************************************************************************)
None == <<"<None>">>
S(piece) == <<piece>>
Empty == <<>>

\* bool(v) for a value that is None or a str
Truthy(v) == v # None /\ v # Empty

OrTakesSecond(a, b) == b

\* Python's `a or b`
Or(a, b) == IF Truthy(a) THEN a ELSE b

(***************************************************************************)
(* ClientConfig.                                                           *)
(***************************************************************************)
DefaultTimeout == 30
DefaultRetries == 3

ClientConfig(retries) ==
    [base_url |-> S("http://server"), api_key |-> S("key"),
     timeout |-> DefaultTimeout, retries |-> retries,
     user_agent |-> S("WebBuddyPythonSDK/1.0.0")]

\* retry counts a caller can configure: the dataclass takes any int
RetryCounts == -1 .. MaxRetries

(***************************************************************************)
(* Domain events: the class name and the instance's __dict__.              *)
(***************************************************************************)
ProjectSelectionRequested(project_name, selector, correlation_id) ==
    [kind |-> "ProjectSelectionRequested",
     fields |-> [project_name |-> project_name, selector |-> selector,
                 correlation_id |-> correlation_id]]

ChatSelectionRequested(chat_title, selector, correlation_id) ==
    [kind |-> "ChatSelectionRequested",
     fields |-> [chat_title |-> chat_title, selector |-> selector,
                 correlation_id |-> correlation_id]]

PromptSubmissionRequested(prompt_text, selector, correlation_id) ==
    [kind |-> "PromptSubmissionRequested",
     fields |-> [prompt_text |-> prompt_text, selector |-> selector,
                 correlation_id |-> correlation_id]]

ResponseRetrievalRequested(selector, timeout, correlation_id) ==
    [kind |-> "ResponseRetrievalRequested",
     fields |-> [selector |-> selector, timeout |-> timeout,
                 correlation_id |-> correlation_id]]

GoogleImageDownloadRequested(image_element, search_query, filename, correlation_id) ==
    [kind |-> "GoogleImageDownloadRequested",
     fields |-> [image_element |-> image_element, search_query |-> search_query,
                 filename |-> filename, correlation_id |-> correlation_id]]

FileDownloadRequested(url, filename, conflict_action, save_as, correlation_id) ==
    [kind |-> "FileDownloadRequested",
     fields |-> [url |-> url, filename |-> filename, conflict_action |-> conflict_action,
                 save_as |-> save_as, correlation_id |-> correlation_id]]

TrainingModeRequested(website, correlation_id) ==
    [kind |-> "TrainingModeRequested",
     fields |-> [website |-> website, correlation_id |-> correlation_id]]

\* the correlation ids a caller hands in: absent, empty, or its own
GivenIds == {None, Empty, S("c1")}

\* the events a caller hands to send_event
Events ==
    {ProjectSelectionRequested(S("P"), None, c) : c \in GivenIds}
    \cup {ProjectSelectionRequested(S("P"), S("#proj"), S("c1")),
          ChatSelectionRequested(S("T"), None, S("c1")),
          PromptSubmissionRequested(S("hi"), S("#prompt-textarea"), None),
          ResponseRetrievalRequested(S("[data-message-author-role=\"assistant\"]"), 30000, S("c1")),
          GoogleImageDownloadRequested(S("elem"), None, S("image_1"), S("c1")),
          FileDownloadRequested(S("http://f"), None, S("uniquify"), FALSE, Empty),
          TrainingModeRequested(S("site"), S("c1"))}

(***************************************************************************)
(* Pure helpers of the asynchronous client.                                *)
(***************************************************************************)
\* id(self) of the asynchronous and of the synchronous client object
ObjectId(client) == IF client = "async" THEN 140001234 ELSE 140005678

\* f'py-client-{int(time.time() * 1000)}-{id(self) % 10000}'
GenerateCorrelationId(client, ms) ==
    <<(IF client = "async" THEN "py-client-" ELSE "py-sync-"),
      ToString(ms), "-", ToString(ObjectId(client) % 10000)>>

\* event_type_map of _map_event_to_action; None when .get() finds nothing
EventTypeMap(kind) ==
    CASE kind = "ProjectSelectionRequested" -> S("SELECT_PROJECT")
      [] kind = "ChatSelectionRequested" -> S("SELECT_CHAT")
      [] kind = "PromptSubmissionRequested" -> S("FILL_PROMPT")
      [] kind = "ResponseRetrievalRequested" -> S("GET_RESPONSE")
      [] kind = "GoogleImageDownloadRequested" -> S("DOWNLOAD_IMAGE")
      [] kind = "FileDownloadRequested" -> S("DOWNLOAD_FILE")
      [] OTHER -> None

\* _map_event_to_action raises ValueError exactly when this is FALSE
HasAction(event) == Truthy(EventTypeMap(event.kind))

MapEventToAction(event) == EventTypeMap(event.kind)

\* the default branch of _extract_event_payload: __dict__ without correlation_id
DefaultPayload(event) ==
    [k \in (DOMAIN event.fields) \ {"correlation_id"} |-> event.fields[k]]

\* EventDrivenWebBuddyClient._extract_event_payload
ExtractEventPayload(event) ==
    CASE event.kind = "ProjectSelectionRequested" ->
            [selector |-> Or(event.fields.selector,
                             <<"[data-project-name=\"">> \o event.fields.project_name
                                 \o <<"\"]">>)]
      [] event.kind = "PromptSubmissionRequested" ->
            [selector |-> event.fields.selector, value |-> event.fields.prompt_text]
      [] event.kind = "GoogleImageDownloadRequested" ->
            [selector |-> S("img"), imageElement |-> event.fields.image_element,
             searchQuery |-> event.fields.search_query,
             filename |-> event.fields.filename]
      [] event.kind = "FileDownloadRequested" ->
            [url |-> event.fields.url, filename |-> event.fields.filename,
             conflictAction |-> event.fields.conflict_action,
             saveAs |-> event.fields.save_as]
      [] OTHER -> DefaultPayload(event)

\* SyncEventDrivenWebBuddyClient._extract_event_payload
SyncExtractEventPayload(event) ==
    CASE event.kind = "ProjectSelectionRequested" ->
            [selector |-> Or(event.fields.selector,
                             <<"[data-project-name=\"">> \o event.fields.project_name
                                 \o <<"\"]">>)]
      [] OTHER -> DefaultPayload(event)

(***************************************************************************)
(* The server: what one HTTP attempt ends in.                              *)
(***************************************************************************)
HttpResponse(status) == [type |-> "response", status |-> status]
TimedOut == [type |-> "timeout", status |-> 0]
ConnectionFailed == [type |-> "error", status |-> 0]

\* the ways an attempt can fail: an HTTP error status, a timeout, a refused connection
Faults == {HttpResponse(400), TimedOut, ConnectionFailed}

\* what the server of this run can answer an attempt with
Outcomes == {HttpResponse(200)} \cup env.faults

\* the time an attempt can take, in ms: it ends within the millisecond, or later
Latencies == {0, 1}

\* the clock after an await of `ms` milliseconds (awaits of concurrent tasks
\* are counted one after the other: only the order of the readings matters)
Elapsed(ms) == now + ms

\* the outcome the server gives the k-th attempt of slot s: the one it gave that
\* attempt before when there is one, any outcome otherwise
Answers(s, k, o) == k <= Len(script[s]) => o = script[s][k]

Answered(s, k, o) ==
    IF k <= Len(script[s]) THEN script ELSE [script EXCEPT ![s] = Append(@, o)]

(***************************************************************************)
(* Results of a call, and the responses send_event returns.                *)
(***************************************************************************)
Pending == [tag |-> "pending"]
ReturnedJson(json) == [tag |-> "return", json |-> json]
ReturnedResponse(response) == [tag |-> "return", response |-> response]

\* a raised exception: its class and, for EventSendError, the class of its cause
Raised(exc, cause) == [tag |-> "raise", exc |-> exc, cause |-> cause]

\* EventSendError(message, event, error) raised by send_event's except clause
EventSendError(error) == Raised("EventSendError", error.exc)

\* the typed outcomes of a request kind (the Union its request_* method returns)
TypedResponses(kind) ==
    (CASE kind = "ProjectSelectionRequested" -> {"ProjectSelected", "ProjectSelectionFailed"}
       [] kind = "ChatSelectionRequested" -> {"ChatSelected", "ChatSelectionFailed"}
       [] kind = "PromptSubmissionRequested" -> {"PromptSubmitted", "PromptSubmissionFailed"}
       [] kind = "ResponseRetrievalRequested" -> {"ResponseRetrieved", "ResponseRetrievalFailed"}
       [] kind = "GoogleImageDownloadRequested" ->
            {"GoogleImageDownloadCompleted", "GoogleImageDownloadFailed"}
       [] kind = "FileDownloadRequested" -> {"FileDownloadStarted", "FileDownloadFailed"}
       [] OTHER -> {})

\* the classes _wait_for_event_response can return: the placeholder builds a
\* GenericEventResponse; the channel it stands for delivers the typed outcomes too
ResponseClasses(kind) ==
    IF env.channel = "placeholder" THEN {"GenericEventResponse"}
    ELSE {"GenericEventResponse"} \cup TypedResponses(kind)

\* _wait_for_event_response: the response echoes the correlation id it was given
WaitForEventResponse(class, correlation_id) ==
    [class |-> class, correlation_id |-> correlation_id]

\* SyncEventDrivenWebBuddyClient._create_mock_response
CreateMockResponse(correlation_id) ==
    [class |-> "GenericEventResponse", correlation_id |-> correlation_id]

(***************************************************************************)
(* Transport.                                                              *)
(***************************************************************************)
RECURSIVE Pow2(_)
Pow2(n) == IF n <= 0 THEN 1 ELSE 2 * Pow2(n - 1)

\* asyncio.sleep(2 ** attempt), in seconds
BackoffSeconds(attempt) == Pow2(attempt)

\* `response.status >= 400`, and raise_for_status() of the synchronous client
IsHttpError(status) == status >= 400

\* range(self.config.retries) has an attempt numbered a
InRange(a, n) == 0 <= a /\ a < n

IsLastAttemptOffByOne(attempt) == attempt = config.retries

\* `attempt == self.config.retries - 1`
IsLastAttempt(attempt) == attempt = config.retries - 1

\* what one asynchronous attempt raises inside the try block; "" when it returns
AsyncAttemptRaises(o) ==
    CASE o.type = "timeout" -> "TimeoutError"
      [] o.type = "error" -> "ClientError"
      [] o.type = "response" /\ IsHttpError(o.status) -> "EventSendError"
      [] OTHER -> ""

\* what one synchronous attempt makes _make_request raise; "" when it returns
SyncAttemptRaises(o) ==
    IF o.type = "response" /\ ~IsHttpError(o.status) THEN "" ELSE "EventSendError"

\* the request one attempt puts on the wire
Request(t) ==
    [method |-> t.method, url |-> config.base_url \o t.endpoint, json |-> t.body]

\* dispatch_payload of send_event
DispatchPayload(client, event, target, correlation_id) ==
    [target |-> target,
     message |-> [action |-> MapEventToAction(event),
                  payload |-> IF client = "async" THEN ExtractEventPayload(event)
                              ELSE SyncExtractEventPayload(event),
                  correlationId |-> correlation_id]]

Targets == {[extensionId |-> S("ext"), tabId |-> 7]}

(***************************************************************************)
(* Tasks.  pc: "ready" (not started), "http" (awaiting the response),      *)
(* "backoff" (in asyncio.sleep(2 ** attempt)), "waiting" (in                *)
(* _wait_for_event_response), "done".                                      *)
(***************************************************************************)
\* a call of send_event(event, extension_id, tab_id) that has not run yet
SendEventTask(client, slot, event, target) ==
    [pc |-> "ready", client |-> client, fn |-> "send_event", slot |-> slot,
     event |-> event, target |-> target, cid |-> None,
     method |-> S("POST"), endpoint |-> S("/api/dispatch"), body |-> <<>>,
     rng |-> 0, attempt |-> 0, reqs |-> <<>>, got |-> <<>>, sleeps |-> <<>>,
     via |-> <<>>, result |-> Pending]

\* a call of _make_request(method, endpoint) without a body
MakeRequestTask(client, slot, method, endpoint) ==
    [pc |-> "ready", client |-> client, fn |-> "_make_request", slot |-> slot,
     event |-> TrainingModeRequested(Empty, None), target |-> [extensionId |-> Empty, tabId |-> 0],
     cid |-> None,
     method |-> method, endpoint |-> endpoint, body |-> <<>>,
     rng |-> 0, attempt |-> 0, reqs |-> <<>>, got |-> <<>>, sleeps |-> <<>>,
     via |-> <<>>, result |-> Pending]

\* the exception `error` leaves the task's function: send_event wraps it
Fail(t, error) ==
    [t EXCEPT !.pc = "done",
              !.result = IF t.fn = "send_event" THEN EventSendError(error) ELSE error]

\* _make_request returned `json` to the task's function
MadeRequest(t, json) ==
    IF t.fn = "send_event"
    THEN IF t.client = "async"
         THEN [t EXCEPT !.pc = "waiting"]
         ELSE [t EXCEPT !.pc = "done",
                        !.result = ReturnedResponse(CreateMockResponse(t.cid))]
    ELSE [t EXCEPT !.pc = "done", !.result = ReturnedJson(json)]

\* the asynchronous client creates its ClientSession when it has none
EnsureSession(client) ==
    IF client = "async" /\ session.cur = 0
    THEN [session EXCEPT !.cur = session.created + 1, !.created = session.created + 1]
    ELSE session

\* self._session.request(...) can put a request on the wire: self._session is a
\* ClientSession (not None) that has not been closed
Live(s) == s # 0 /\ s \notin session.closed

\* what evaluating self._session.request(...) raises when it sends nothing
SessionRaises(s) == IF s = 0 THEN "AttributeError" ELSE "RuntimeError"

\* the loop of the asynchronous _make_request reaches attempt number a, with s
\* the value of self._session: the request goes out and the response is awaited,
\* or the attempt raises at once and the except clause sleeps or re-raises
LoopAt(t, a, s) ==
    IF InRange(a, t.rng)
    THEN LET u == [t EXCEPT !.attempt = a,
                            !.via = Append(@, [session |-> s, live |-> Live(s)])]
         IN IF Live(s)
            THEN [u EXCEPT !.pc = "http", !.reqs = Append(@, Request(t))]
            ELSE IF IsLastAttempt(a)
                 THEN Fail(u, Raised(SessionRaises(s), ""))
                 ELSE [u EXCEPT !.pc = "backoff"]
    ELSE MadeRequest(t, None)

\* _make_request is entered
EnterMakeRequest(t) ==
    IF t.client = "async"
    THEN LoopAt([t EXCEPT !.rng = config.retries], 0, EnsureSession(t.client).cur)
    ELSE [t EXCEPT !.pc = "http", !.reqs = Append(@, Request(t))]

\* send_event up to its first await
BeginSendEvent(t) ==
    LET cid == Or(t.event.fields.correlation_id, GenerateCorrelationId(t.client, now))
        u == [t EXCEPT !.cid = cid]
    IN IF ~HasAction(t.event)
       THEN Fail(u, Raised("ValueError", ""))
       ELSE EnterMakeRequest(
                [u EXCEPT !.body = <<DispatchPayload(t.client, t.event, t.target, cid)>>])

\* the task runs from its start to its first await
Begin(i) ==
    /\ i \in DOMAIN tasks
    /\ tasks[i].pc = "ready"
    /\ LET t == tasks[i]
       IN IF t.fn = "send_event"
          THEN /\ tasks' = [tasks EXCEPT ![i] = BeginSendEvent(t)]
               /\ session' = IF HasAction(t.event) THEN EnsureSession(t.client)
                             ELSE session
          ELSE /\ tasks' = [tasks EXCEPT ![i] = EnterMakeRequest(t)]
               /\ session' = EnsureSession(t.client)
    /\ UNCHANGED <<config, now, script, env, call, wf>>

\* the attempt in flight ends with outcome o
AttemptEnds(t, o) ==
    LET u == [t EXCEPT !.got = Append(@, o)]
        exc == IF t.client = "async" THEN AsyncAttemptRaises(o) ELSE SyncAttemptRaises(o)
    IN IF exc = "" THEN MadeRequest(u, S("json"))
       ELSE IF t.client = "async" /\ ~IsLastAttempt(t.attempt)
            THEN [u EXCEPT !.pc = "backoff"]
            ELSE Fail(u, Raised(exc, ""))

\* the server answers the attempt in flight after d milliseconds
Respond(i) ==
    /\ i \in DOMAIN tasks
    /\ tasks[i].pc = "http"
    /\ \E o \in Outcomes, d \in env.latencies :
         /\ Answers(tasks[i].slot, Len(tasks[i].reqs), o)
         /\ script' = Answered(tasks[i].slot, Len(tasks[i].reqs), o)
         /\ now' = Elapsed(d)
         /\ tasks' = [tasks EXCEPT ![i] = AttemptEnds(tasks[i], o)]
    /\ UNCHANGED <<config, session, env, call, wf>>

\* asyncio.sleep(2 ** attempt) ends and the loop goes on to the next attempt
AfterBackoff(t) ==
    LoopAt([t EXCEPT !.sleeps = Append(@, BackoffSeconds(t.attempt))], t.attempt + 1,
           session.cur)

Backoff(i) ==
    /\ i \in DOMAIN tasks
    /\ tasks[i].pc = "backoff"
    /\ now' = Elapsed(1000 * BackoffSeconds(tasks[i].attempt))
    /\ tasks' = [tasks EXCEPT ![i] = AfterBackoff(tasks[i])]
    /\ UNCHANGED <<config, session, script, env, call, wf>>

\* asyncio.sleep(0.1) of _wait_for_event_response ends and the response is built
Deliver(i) ==
    /\ i \in DOMAIN tasks
    /\ tasks[i].pc = "waiting"
    /\ \E class \in ResponseClasses(tasks[i].event.kind) :
         tasks' = [tasks EXCEPT ![i] =
                     [@ EXCEPT !.pc = "done",
                               !.result = ReturnedResponse(
                                   WaitForEventResponse(class, tasks[i].cid))]]
    /\ now' = Elapsed(100)
    /\ UNCHANGED <<config, session, script, env, call, wf>>

(***************************************************************************)
(* Single calls: send_event on one client or on both, and ping.            *)
(***************************************************************************)
Clients == {"async", "sync"}

\* send_event(event, extension_id, tab_id) is called on every client of cs; the
\* server treats the calls alike (they share a slot of the script)
StartSendEvent(cs, event, target) ==
    /\ call.name = "idle"
    /\ tasks' = IF cs = Clients
                THEN <<SendEventTask("async", 1, event, target),
                       SendEventTask("sync", 1, event, target)>>
                ELSE <<SendEventTask(CHOOSE c \in cs : TRUE, 1, event, target)>>
    /\ script' = <<<<>>>>
    /\ call' = [name |-> "send_event", start |-> now, pc |-> "await",
                result |-> Pending]
    /\ UNCHANGED <<config, now, session, env, wf>>

\* ping() up to its await of _make_request('GET', '/docs/health')
StartPing(client) ==
    /\ call.name = "idle"
    /\ tasks' = <<MakeRequestTask(client, 1, S("GET"), S("/docs/health"))>>
    /\ script' = <<<<>>>>
    /\ call' = [name |-> "ping", start |-> now, pc |-> "await", result |-> Pending]
    /\ UNCHANGED <<config, now, session, env, wf>>

\* the dict ping builds in its try block, or in its except clause
PingResult(made, start, end) ==
    [success |-> (made.tag = "return"), latency |-> end - start]

\* _make_request has returned or raised, and ping returns
PingReturn ==
    /\ call.name = "ping"
    /\ call.pc = "await"
    /\ tasks[1].pc = "done"
    /\ call' = [call EXCEPT !.pc = "returned",
                            !.result = PingResult(tasks[1].result, call.start, now)]
    /\ UNCHANGED <<config, now, session, tasks, script, env, wf>>

(***************************************************************************)
(* send_events(events, parallel, stop_on_error) of the asynchronous client. *)
(***************************************************************************)
\* event_data of the list handed to send_events
EventData(event) == [event |-> event, extension_id |-> S("ext"), tab_id |-> 7]

\* self.send_event(event_data['event'], event_data['extension_id'], event_data['tab_id'])
SendEventOf(event_data, slot) ==
    SendEventTask("async", slot, event_data.event,
                  [extensionId |-> event_data.extension_id, tabId |-> event_data.tab_id])

\* the events of position k of a list: one that maps to an action, one that does not
BatchEvents(k) ==
    {EventData(ProjectSelectionRequested(S("P"), None, S("c" \o ToString(k)))),
     EventData(TrainingModeRequested(S("site"), S("c" \o ToString(k))))}

\* the lists a caller hands in
EventLists ==
    UNION {{es \in [1 .. n -> UNION {BatchEvents(k) : k \in 1 .. n}] :
                \A k \in 1 .. n : es[k] \in BatchEvents(k)} : n \in 0 .. MaxBatch}

StartSendEvents(events, parallel, stop_on_error) ==
    /\ call.name = "idle"
    /\ LET n == Len(events)
           frame == [name |-> "send_events", events |-> events, parallel |-> parallel,
                     stop_on_error |-> stop_on_error, i |-> 0, results |-> <<>>,
                     calls |-> <<>>, pc |-> "returned", error |-> Pending]
       IN IF parallel
          THEN /\ tasks' = [k \in 1 .. n |-> SendEventOf(events[k], k)]
               /\ script' = [k \in 1 .. n |-> <<>>]
               /\ call' = [frame EXCEPT !.pc = "gather", !.calls = [k \in 1 .. n |-> k]]
          ELSE IF n = 0
               THEN /\ call' = frame
                    /\ UNCHANGED <<tasks, script>>
               ELSE /\ tasks' = <<SendEventOf(events[1], 1)>>
                    /\ script' = <<<<>>>>
                    /\ call' = [frame EXCEPT !.pc = "await", !.i = 1, !.calls = <<1>>]
    /\ UNCHANGED <<config, now, session, env, wf>>

AbortsOnAnyFailure(stop_on_error, result) == result.tag = "raise"

NeverAborts(stop_on_error, result) == FALSE

\* the except clause of the loop re-raises
Aborts(stop_on_error, result) == result.tag = "raise" /\ stop_on_error

\* results after the iteration: results.append(result) when send_event returned
Collected(results, result) ==
    IF result.tag = "return" THEN Append(results, result.response) ELSE results

\* the sequential loop gets the outcome of its send_event and goes on
SeqResume ==
    /\ call.name = "send_events"
    /\ call.pc = "await"
    /\ tasks[call.i].pc = "done"
    /\ LET r == tasks[call.i].result
           next == call.i + 1
       IN IF Aborts(call.stop_on_error, r)
          THEN /\ call' = [call EXCEPT !.pc = "raised", !.error = r]
               /\ UNCHANGED <<tasks, script>>
          ELSE IF next <= Len(call.events)
               THEN /\ tasks' = Append(tasks, SendEventOf(call.events[next], next))
                    /\ script' = Append(script, <<>>)
                    /\ call' = [call EXCEPT !.i = next,
                                            !.results = Collected(call.results, r),
                                            !.calls = Append(@, next)]
               ELSE /\ call' = [call EXCEPT !.pc = "returned",
                                            !.results = Collected(call.results, r)]
                    /\ UNCHANGED <<tasks, script>>
    /\ UNCHANGED <<config, now, session, env, wf>>

NoRaisers(ts) == {}

\* the send_event calls of the batch that have raised (gather is called without
\* return_exceptions, so the exception of one of them is what gather raises)
Raisers(ts) == {k \in DOMAIN ts : ts[k].pc = "done" /\ ts[k].result.tag = "raise"}

\* the list asyncio.gather returns: one entry per argument, in argument order
Gathered(ts) ==
    [k \in DOMAIN ts |-> IF ts[k].result.tag = "return" THEN ts[k].result.response
                         ELSE ts[k].result]

\* every send_event of the batch is done and none has raised: gather returns
GatherReturn ==
    /\ call.name = "send_events"
    /\ call.pc = "gather"
    /\ \A k \in DOMAIN tasks : tasks[k].pc = "done"
    /\ Raisers(tasks) = {}
    /\ call' = [call EXCEPT !.pc = "returned", !.results = Gathered(tasks)]
    /\ UNCHANGED <<config, now, session, tasks, script, env, wf>>

\* a send_event of the batch has raised: gather raises its exception to the
\* caller and leaves the other send_event calls running
GatherRaise ==
    /\ call.name = "send_events"
    /\ call.pc = "gather"
    /\ \E k \in Raisers(tasks) :
         call' = [call EXCEPT !.pc = "raised", !.error = tasks[k].result]
    /\ UNCHANGED <<config, now, session, tasks, script, env, wf>>

(***************************************************************************)
(* execute_full_chatgpt_workflow(extension_id, tab_id, workflow).          *)
(***************************************************************************)
\* the workflow dicts a caller hands in: chat_title absent, empty or given
Workflows ==
    {[project_name |-> S("P"), chat_title |-> title, prompt_text |-> S("hi")] :
        title \in {None, Empty, S("T")}}

\* the event the request_* method of a step builds, with a fresh correlation id
StepEvent(step, workflow, correlation_id) ==
    CASE step = "project_selection" ->
            ProjectSelectionRequested(workflow.project_name, None, correlation_id)
      [] step = "chat_selection" ->
            ChatSelectionRequested(workflow.chat_title, None, correlation_id)
      [] step = "prompt_submission" ->
            PromptSubmissionRequested(workflow.prompt_text, S("#prompt-textarea"),
                                      correlation_id)
      [] step = "response_retrieval" ->
            ResponseRetrievalRequested(S("[data-message-author-role=\"assistant\"]"),
                                       30000, correlation_id)

\* the request_* call of a step: the event is built now and handed to send_event
RequestStep(step, workflow, target, slot) ==
    SendEventTask("async", slot,
                  StepEvent(step, workflow, GenerateCorrelationId("async", now)), target)

AlwaysSelectsChat(workflow) == TRUE

\* `if workflow.get('chat_title'):`
SelectsChat(workflow) == Truthy(workflow.chat_title)

\* the isinstance checks that follow a step: the failed class that raises
\* WorkflowError after it, None for a step that no check follows
FailedClass(step) ==
    CASE step = "project_selection" -> S("ProjectSelectionFailed")
      [] step = "chat_selection" -> S("ChatSelectionFailed")
      [] step = "prompt_submission" -> S("PromptSubmissionFailed")
      [] OTHER -> None

\* the step that follows `step`; "return" after the last one
StepAfter(step, workflow) ==
    CASE step = "project_selection" ->
            IF SelectsChat(workflow) THEN "chat_selection" ELSE "prompt_submission"
      [] step = "chat_selection" -> "prompt_submission"
      [] step = "prompt_submission" -> "response_retrieval"
      [] OTHER -> "return"

\* WorkflowError(message, partial_results)
WorkflowError(partial_results) ==
    [tag |-> "raise", exc |-> "WorkflowError", cause |-> "",
     partial_results |-> partial_results]

StartWorkflow(workflow, target) ==
    /\ call.name = "idle"
    /\ wf.pc = "idle"
    /\ tasks' = <<RequestStep("project_selection", workflow, target, 1)>>
    /\ script' = <<<<>>>>
    /\ call' = [name |-> "execute_full_chatgpt_workflow"]
    /\ wf' = [pc |-> "await", step |-> "project_selection", workflow |-> workflow,
              target |-> target, results |-> <<>>, steps |-> <<"project_selection">>,
              outcome |-> Pending]
    /\ UNCHANGED <<config, now, session, env>>

\* the step awaited is over: its exception leaves the workflow, or its response
\* is stored and checked, and the next step is requested or the results returned
WorkflowResume ==
    /\ wf.pc = "await"
    /\ tasks[Len(tasks)].pc = "done"
    /\ LET r == tasks[Len(tasks)].result
           stored == wf.results @@ (wf.step :> r.response)
           next == StepAfter(wf.step, wf.workflow)
       IN IF r.tag = "raise"
          THEN /\ wf' = [wf EXCEPT !.pc = "raised", !.outcome = r]
               /\ UNCHANGED <<tasks, script>>
          ELSE IF S(r.response.class) = FailedClass(wf.step)
               THEN /\ wf' = [wf EXCEPT !.pc = "raised", !.results = stored,
                                        !.outcome = WorkflowError(stored)]
                    /\ UNCHANGED <<tasks, script>>
               ELSE IF next = "return"
                    THEN /\ wf' = [wf EXCEPT !.pc = "returned", !.results = stored,
                                             !.outcome = [tag |-> "return"]]
                         /\ UNCHANGED <<tasks, script>>
                    ELSE /\ tasks' = Append(tasks, RequestStep(next, wf.workflow, wf.target,
                                                               Len(tasks) + 1))
                         /\ script' = Append(script, <<>>)
                         /\ wf' = [wf EXCEPT !.step = next, !.results = stored,
                                             !.steps = Append(@, next)]
    /\ UNCHANGED <<config, now, session, env, call>>

(***************************************************************************)
(* close() of the asynchronous client.                                     *)
(***************************************************************************)
\* close() up to its await of self._session.close(): nothing to do without a
\* session; otherwise the session is closed, and the await either completes at
\* once (self._session = None follows in the same step) or suspends the call
Close ==
    /\ ~session.closing
    /\ Cardinality(session.closed) < MaxCloses
    /\ IF session.cur = 0
       THEN UNCHANGED session
       ELSE \E suspends \in BOOLEAN :
                session' = [session EXCEPT !.closed = @ \cup {session.cur},
                                           !.closing = suspends,
                                           !.cur = IF suspends THEN @ ELSE 0]
    /\ UNCHANGED <<config, now, tasks, script, env, call, wf>>

\* the suspended close() resumes: self._session = None
CloseEnds ==
    /\ session.closing
    /\ session' = [session EXCEPT !.cur = 0, !.closing = FALSE]
    /\ UNCHANGED <<config, now, tasks, script, env, call, wf>>

(***************************************************************************)
(* download_multiple_google_images(extension_id, tab_id, images, parallel,  *)
(* delay_between).                                                         *)
(***************************************************************************)
\* an image dict: 'element' is required, 'filename' may be missing (None here)
Images ==
    {[element |-> S("elem"), search_query |-> None, filename |-> f] :
        f \in {None, S("cat")}}

\* the lists of images a caller hands in: every image names its file, or none does
ImageLists == UNION {[1 .. n -> {img}] : img \in Images, n \in 0 .. MaxBatch}

\* the milliseconds that can pass between two readings of time.time() made one
\* right after the other: none, or the clock moves on to the next millisecond
Ticks == {0, 1}

\* the clock at the k-th reading, when ticks[j] ms pass before the j-th one
RECURSIVE ClockAt(_, _)
ClockAt(ticks, k) == IF k = 0 THEN now ELSE ClockAt(ticks, k - 1) + ticks[k]

\* img.get('filename', f'image_{i+1}'), for the image of (0-based) index i
FilenameOf(img, i) ==
    IF img.filename = None THEN <<"image_", ToString(i + 1)>> ELSE img.filename

\* the list comprehension that builds download_events: one event per image, each
\* with the correlation id _generate_correlation_id returns at that moment
DownloadEvents(images, ticks) ==
    [k \in 1 .. Len(images) |->
        EventData(GoogleImageDownloadRequested(
                      images[k].element, images[k].search_query,
                      FilenameOf(images[k], k - 1),
                      GenerateCorrelationId("async", ClockAt(ticks, k))))]

\* the sequential loop starts the send_event of event number i, or returns
DownloadLoopAt(frame, i) ==
    IF i <= Len(frame.events)
    THEN /\ tasks' = (IF i = 1 THEN <<>> ELSE tasks) \o <<SendEventOf(frame.events[i], i)>>
         /\ script' = (IF i = 1 THEN <<>> ELSE script) \o <<<<>>>>
         /\ call' = [frame EXCEPT !.pc = "await", !.i = i]
    ELSE /\ call' = [frame EXCEPT !.pc = "returned"]
         /\ UNCHANGED <<tasks, script>>

\* the call up to its first await: the events are built, then handed to
\* send_events(download_events, parallel=True) or to the sequential loop
StartDownload(images, parallel, delay_between, ticks) ==
    /\ call.name = "idle"
    /\ now' = ClockAt(ticks, Len(images))
    /\ LET events == DownloadEvents(images, ticks)
           n == Len(events)
       IN IF parallel
          THEN /\ tasks' = [k \in 1 .. n |-> SendEventOf(events[k], k)]
               /\ script' = [k \in 1 .. n |-> <<>>]
               /\ call' = [name |-> "send_events", events |-> events, parallel |-> TRUE,
                           stop_on_error |-> TRUE, i |-> 0, results |-> <<>>,
                           calls |-> [k \in 1 .. n |-> k], pc |-> "gather",
                           error |-> Pending]
          ELSE DownloadLoopAt([name |-> "download_multiple_google_images",
                               events |-> events, delay_between |-> delay_between,
                               i |-> 0, results |-> <<>>, pc |-> "returned",
                               error |-> Pending], 1)
    /\ UNCHANGED <<config, session, env, wf>>

\* the send_event awaited by the loop is over: its exception leaves the call, or
\* its response is appended and the loop sleeps delay_between or goes on
DownloadResume ==
    /\ call.name = "download_multiple_google_images"
    /\ call.pc = "await"
    /\ tasks[call.i].pc = "done"
    /\ LET r == tasks[call.i].result
       IN IF r.tag = "raise"
          THEN /\ call' = [call EXCEPT !.pc = "raised", !.error = r]
               /\ UNCHANGED <<tasks, script>>
          ELSE IF call.delay_between > 0
               THEN /\ call' = [call EXCEPT !.pc = "sleep",
                                            !.results = Append(@, r.response)]
                    /\ UNCHANGED <<tasks, script>>
               ELSE DownloadLoopAt([call EXCEPT !.results = Append(@, r.response)],
                                   call.i + 1)
    /\ UNCHANGED <<config, now, session, env, wf>>

\* asyncio.sleep(delay_between) ends
DownloadSleepEnds ==
    /\ call.name = "download_multiple_google_images"
    /\ call.pc = "sleep"
    /\ now' = Elapsed(1000 * call.delay_between)
    /\ DownloadLoopAt(call, call.i + 1)
    /\ UNCHANGED <<config, session, env, wf>>

InitClients ==
    /\ now = 0
    /\ session = [cur |-> 0, created |-> 0, closed |-> {}, closing |-> FALSE]
    /\ tasks = <<>>
    /\ script = <<>>
    /\ call = [name |-> "idle"]
    /\ wf = [pc |-> "idle"]

Init ==
    /\ InitClients
    /\ config \in {ClientConfig(r) : r \in RetryCounts}
    /\ env = [faults |-> Faults, latencies |-> Latencies, channel |-> "placeholder"]

\* a batch runs under the default configuration, against a server that shows one
\* kind of fault and answers within the millisecond
InitBatch ==
    /\ InitClients
    /\ config = ClientConfig(DefaultRetries)
    /\ env \in {[faults |-> {f}, latencies |-> {0}, channel |-> "placeholder"] : f \in Faults}

NextBatch ==
    \/ \E events \in EventLists, parallel \in BOOLEAN, stop_on_error \in BOOLEAN :
         /\ parallel => stop_on_error
         /\ StartSendEvents(events, parallel, stop_on_error)
    \/ \E i \in DOMAIN tasks : Begin(i)
    \/ \E i \in DOMAIN tasks : Respond(i)
    \/ \E i \in DOMAIN tasks : Backoff(i)
    \/ \E i \in DOMAIN tasks : Deliver(i)
    \/ SeqResume
    \/ GatherReturn
    \/ GatherRaise

SpecBatch == InitBatch /\ [][NextBatch]_vars

Next ==
    \/ \E cs \in (SUBSET Clients) \ {{}}, event \in Events, target \in Targets :
         StartSendEvent(cs, event, target)
    \/ \E client \in Clients : StartPing(client)
    \/ \E i \in DOMAIN tasks : Begin(i)
    \/ \E i \in DOMAIN tasks : Respond(i)
    \/ \E i \in DOMAIN tasks : Backoff(i)
    \/ \E i \in DOMAIN tasks : Deliver(i)
    \/ PingReturn

Spec == Init /\ [][Next]_vars

\* a workflow runs under the default configuration, against a server that shows
\* one kind of fault and answers within the millisecond; the correlation channel
\* is the placeholder, or one that delivers the typed outcomes
InitWorkflow ==
    /\ InitClients
    /\ config = ClientConfig(DefaultRetries)
    /\ env \in {[faults |-> {f}, latencies |-> {0}, channel |-> c] :
                    f \in Faults, c \in {"placeholder", "typed"}}

NextWorkflow ==
    \/ \E workflow \in Workflows, target \in Targets : StartWorkflow(workflow, target)
    \/ \E i \in DOMAIN tasks : Begin(i)
    \/ \E i \in DOMAIN tasks : Respond(i)
    \/ \E i \in DOMAIN tasks : Backoff(i)
    \/ \E i \in DOMAIN tasks : Deliver(i)
    \/ WorkflowResume

SpecWorkflow == InitWorkflow /\ [][NextWorkflow]_vars

\* a batch of downloads runs under the default configuration, against a server
\* that shows one kind of fault and answers within the millisecond
InitDownload ==
    /\ InitClients
    /\ config = ClientConfig(DefaultRetries)
    /\ env \in {[faults |-> {f}, latencies |-> {0}, channel |-> "placeholder"] : f \in Faults}

NextDownload ==
    \/ \E images \in ImageLists, parallel \in BOOLEAN, delay_between \in {0, 1} :
         \E ticks \in [1 .. Len(images) -> Ticks] :
            StartDownload(images, parallel, delay_between, ticks)
    \/ \E i \in DOMAIN tasks : Begin(i)
    \/ \E i \in DOMAIN tasks : Respond(i)
    \/ \E i \in DOMAIN tasks : Backoff(i)
    \/ \E i \in DOMAIN tasks : Deliver(i)
    \/ DownloadResume
    \/ DownloadSleepEnds
    \/ GatherReturn
    \/ GatherRaise

SpecDownload == InitDownload /\ [][NextDownload]_vars

\* concurrent send_event calls (a parallel batch) and close() calls interleave,
\* under the default configuration, against a server that shows one kind of
\* fault and answers within the millisecond
InitSession ==
    /\ InitClients
    /\ config = ClientConfig(DefaultRetries)
    /\ env \in {[faults |-> {f}, latencies |-> {0}, channel |-> "placeholder"] : f \in Faults}

\* the batches of up to two events that all map to an action, so that each of
\* their send_event calls reaches _make_request
SessionEventLists ==
    {es \in EventLists : Len(es) <= 2 /\ \A k \in DOMAIN es : HasAction(es[k].event)}

NextSession ==
    \/ \E events \in SessionEventLists : StartSendEvents(events, TRUE, TRUE)
    \/ \E i \in DOMAIN tasks : Begin(i)
    \/ \E i \in DOMAIN tasks : Respond(i)
    \/ \E i \in DOMAIN tasks : Backoff(i)
    \/ \E i \in DOMAIN tasks : Deliver(i)
    \/ GatherReturn
    \/ GatherRaise
    \/ Close
    \/ CloseEnds

SpecSession == InitSession /\ [][NextSession]_vars

(***************************************************************************)
(* Properties of the transport and of send_event (specification Spec).     *)
(***************************************************************************)
AsyncTasks == {i \in DOMAIN tasks : tasks[i].client = "async"}
SendEventTasks == {i \in DOMAIN tasks : tasks[i].fn = "send_event"}

Succeeded(o) == o.type = "response" /\ o.status < 400
HttpFailed(o) == o.type = "response" /\ o.status >= 400

\* C1: in the asynchronous _make_request a response with status >= 400 is never
\* retried: the attempt that receives it is the call's last one, the call has
\* failed, and no backoff sleep and no further request follow it.
C1_HttpErrorNotRetried ==
    \A i \in AsyncTasks :
        \A k \in 1 .. Len(tasks[i].got) :
            HttpFailed(tasks[i].got[k]) =>
                /\ tasks[i].pc = "done"
                /\ tasks[i].result.tag = "raise"
                /\ Len(tasks[i].reqs) = k
                /\ Len(tasks[i].sleeps) < k

\* the backoff delays of a call whose attempts all fail, in seconds
ExpectedSleeps == <<1, 2, 4, 8, 16>>

AllTimedOut(t) == t.got # <<>> /\ \A k \in 1 .. Len(t.got) : t.got[k] = TimedOut

\* C2: an asynchronous transport call that made an attempt sleeps 2^attempt
\* seconds (1, 2, 4, ...: strictly increasing) before each attempt but the first
\* and never after the last; when every attempt timed out it has made exactly
\* config.retries attempts and raised the timeout; an attempt that succeeds is
\* the call's last attempt and the call does not raise.
C2_RetriesWithBackoff ==
    \A i \in AsyncTasks :
        LET t == tasks[i] IN
        /\ \A k \in 1 .. Len(t.sleeps) : t.sleeps[k] = ExpectedSleeps[k]
        /\ \A j, k \in 1 .. Len(t.sleeps) : j < k => t.sleeps[j] < t.sleeps[k]
        /\ t.reqs # <<>> => Len(t.sleeps) = Len(t.reqs) - 1
        /\ Len(t.reqs) <= config.retries \/ t.reqs = <<>>
        /\ t.pc = "backoff" => Len(t.got) < config.retries
        /\ (AllTimedOut(t) /\ t.pc \notin {"http", "backoff"}) =>
              /\ t.pc = "done"
              /\ Len(t.reqs) = config.retries
              /\ Len(t.sleeps) = config.retries - 1
              /\ t.result.tag = "raise"
              /\ "TimeoutError" \in {t.result.exc, t.result.cause}
        /\ \A k \in 1 .. Len(t.got) :
              Succeeded(t.got[k]) =>
                  /\ k = Len(t.got) /\ k = Len(t.reqs)
                  /\ t.pc \in {"waiting", "done"}
                  /\ t.result.tag # "raise"

\* a call whose three attempts all timed out, with two sleeps between them
C2_Witness ==
    \E i \in AsyncTasks :
        /\ AllTimedOut(tasks[i]) /\ Len(tasks[i].got) = 3
        /\ tasks[i].pc = "done" /\ tasks[i].sleeps = <<1, 2>>

\* C3: a response returned by send_event (either client) carries a non-empty
\* correlation id, the one of the wire message of every request sent, and the
\* event's own id whenever the event carried a non-empty one.
C3_CorrelationIdEchoed ==
    \A i \in SendEventTasks :
        tasks[i].result.tag = "return" =>
            LET t == tasks[i]
                r == t.result.response.correlation_id
                own == t.event.fields.correlation_id
            IN /\ r # None /\ r # Empty
               /\ t.body[1].message.correlationId = r
               /\ \A k \in 1 .. Len(t.reqs) : t.reqs[k].json[1].message.correlationId = r
               /\ (own # None /\ own # Empty) => r = own

\* both clients returned a response for an event that carried its own id
C3_Witness ==
    /\ Len(tasks) = 2
    /\ \A i \in DOMAIN tasks :
          /\ tasks[i].fn = "send_event" /\ tasks[i].result.tag = "return"
          /\ tasks[i].event.fields.correlation_id = S("c1")
          /\ Len(tasks[i].reqs) = 1

\* the host was unreachable for this call: no attempt got a response below 400
Unreachable(t) == \A k \in 1 .. Len(t.got) : ~Succeeded(t.got[k])

\* C9: ping() returns a result with a non-negative latency, and with
\* success = false when the host was unreachable, whatever the configuration.
C9_PingReportsUnreachable ==
    (call.name = "ping" /\ call.pc = "returned") =>
        /\ call.result.latency >= 0
        /\ Unreachable(tasks[1]) => call.result.success = FALSE

\* what a request shows on the wire: the POST, its action and its payload
Wire(t) ==
    [k \in 1 .. Len(t.reqs) |->
        [method |-> t.reqs[k].method, url |-> t.reqs[k].url,
         action |-> t.reqs[k].json[1].message.action,
         payload |-> t.reqs[k].json[1].message.payload]]

\* C10: for the same event, target, configuration and server behaviour the
\* asynchronous and the synchronous send_event put the same requests on the wire,
\* back off alike, and end alike (a response, or EventSendError).
C10_SyncAsyncEquivalent ==
    (/\ call.name = "send_event"
     /\ config.retries >= 1
     /\ Len(tasks) = 2
     /\ \A i \in DOMAIN tasks : tasks[i].pc = "done") =>
        /\ Wire(tasks[1]) = Wire(tasks[2])
        /\ tasks[1].sleeps = tasks[2].sleeps
        /\ tasks[1].result.tag = tasks[2].result.tag

\* C13: an asynchronous send_event returns a response only after a POST to
\* /api/dispatch it issued for the event was answered with a status below 400,
\* whatever the configured retry count (zero and negative counts included).
C13_ResponseNeedsAnsweredPost ==
    \A i \in AsyncTasks \cap SendEventTasks :
        tasks[i].result.tag = "return" =>
            \E k \in 1 .. Len(tasks[i].got) :
                /\ Succeeded(tasks[i].got[k])
                /\ tasks[i].reqs[k].method = S("POST")
                /\ tasks[i].reqs[k].url = config.base_url \o S("/api/dispatch")

(***************************************************************************)
(* Properties of send_events (specification SpecBatch).                    *)
(***************************************************************************)
Sequential == call.name = "send_events" /\ ~call.parallel
Parallel == call.name = "send_events" /\ call.parallel

\* one send_event per event dispatched so far, for the events in input order
DispatchedInOrder ==
    /\ Len(tasks) = Len(call.calls)
    /\ \A k \in 1 .. Len(call.calls) :
          call.calls[k] = k /\ tasks[k].event = call.events[k].event

\* the responses of the first n events whose send_event returned, in input order
RECURSIVE SuccessesUpTo(_)
SuccessesUpTo(n) ==
    IF n = 0 THEN <<>>
    ELSE IF tasks[n].result.tag = "return"
         THEN Append(SuccessesUpTo(n - 1), tasks[n].result.response)
         ELSE SuccessesUpTo(n - 1)

\* C4: send_events(parallel=false, stop_on_error=false) never raises; it calls
\* send_event once per event, in input order, and returns exactly the responses
\* of the events whose send_event returned, in input order.
C4_ContinuesPastFailures ==
    (Sequential /\ ~call.stop_on_error) =>
        /\ call.pc # "raised"
        /\ DispatchedInOrder
        /\ call.pc = "returned" =>
              /\ Len(call.calls) = Len(call.events)
              /\ call.results = SuccessesUpTo(Len(call.events))

\* three events, the middle one failed, the call returned the other two responses
C4_Witness ==
    /\ Sequential /\ ~call.stop_on_error /\ call.pc = "returned"
    /\ Len(call.events) = 3
    /\ tasks[1].result.tag = "return" /\ Len(tasks[1].reqs) = 2
    /\ tasks[2].result.tag = "raise" /\ Len(tasks[2].reqs) = 3
    /\ tasks[3].result.tag = "return"
    /\ Len(call.results) = 2

\* C5: send_events(parallel=false, stop_on_error=true) raises at the first event
\* whose send_event fails: that event is the last one dispatched, its exception is
\* what the call raises, and the call returns a list only when no event failed.
C5_StopsAtFirstFailure ==
    (Sequential /\ call.stop_on_error) =>
        /\ DispatchedInOrder
        /\ \A k \in DOMAIN tasks :
              tasks[k].result.tag = "raise" =>
                  k = Len(tasks) /\ call.pc \in {"await", "raised"}
        /\ call.pc = "raised" =>
              /\ tasks[call.i].result.tag = "raise"
              /\ call.error = tasks[call.i].result
        /\ call.pc = "returned" =>
              /\ Len(call.results) = Len(call.events)
              /\ \A k \in DOMAIN tasks : tasks[k].result.tag = "return"

\* the second of three events failed after the first succeeded: the call raised
\* and the third event was never dispatched
C5_Witness ==
    /\ Sequential /\ call.stop_on_error /\ call.pc = "raised"
    /\ Len(call.events) = 3 /\ Len(tasks) = 2
    /\ tasks[1].result.tag = "return"
    /\ Len(tasks[2].reqs) = 3

\* C6: send_events(parallel=true) starts every send_event at once; it returns
\* only when none has failed, one response per event in input order; when one has
\* failed it raises that exception and returns nothing, whatever its peers did.
C6_AllOrNothing ==
    Parallel =>
        /\ DispatchedInOrder
        /\ Len(tasks) = Len(call.events)
        /\ call.pc = "returned" =>
              /\ Len(call.results) = Len(call.events)
              /\ \A k \in DOMAIN tasks :
                    /\ tasks[k].result.tag = "return"
                    /\ call.results[k] = tasks[k].result.response
        /\ call.pc = "raised" =>
              /\ call.results = <<>>
              /\ \E k \in DOMAIN tasks : tasks[k].result = call.error
              /\ call.error.tag = "raise"
        /\ (call.pc = "gather" /\ \E k \in DOMAIN tasks : tasks[k].result.tag = "raise") =>
              /\ ~ENABLED GatherReturn
              /\ ENABLED GatherRaise

\* the batch raised although a peer of the failed send_event had returned, while
\* another peer was still in flight
C6_Witness ==
    /\ Parallel /\ call.pc = "raised"
    /\ \E k \in DOMAIN tasks : tasks[k].result.tag = "return"
    /\ \E k \in DOMAIN tasks : tasks[k].pc = "http"

(***************************************************************************)
(* Properties of execute_full_chatgpt_workflow (specification SpecWorkflow). *)
(***************************************************************************)
\* the response of the step awaited last is the failed variant of its kind
LastStepFailed ==
    /\ tasks[Len(tasks)].result.tag = "return"
    /\ tasks[Len(tasks)].result.response.class \in
          {"ProjectSelectionFailed", "ChatSelectionFailed", "PromptSubmissionFailed",
           "ResponseRetrievalFailed"}

\* C7: once any of the four steps has returned its failed variant, the call can
\* only raise a WorkflowError whose partial results hold exactly the steps run so
\* far; it dispatches no further step and does not return.
C7_FailedStepRaisesWorkflowError ==
    (wf.pc \in {"raised", "returned"} /\ LastStepFailed) =>
        /\ wf.pc = "raised"
        /\ wf.outcome.exc = "WorkflowError"
        /\ DOMAIN wf.outcome.partial_results = {wf.steps[k] : k \in 1 .. Len(wf.steps)}

\* the steps of a workflow that runs to its end, in order
StepsOf(workflow) ==
    IF workflow.chat_title \in {None, Empty}
    THEN <<"project_selection", "prompt_submission", "response_retrieval">>
    ELSE <<"project_selection", "chat_selection", "prompt_submission",
           "response_retrieval">>

StepKind(step) ==
    CASE step = "project_selection" -> "ProjectSelectionRequested"
      [] step = "chat_selection" -> "ChatSelectionRequested"
      [] step = "prompt_submission" -> "PromptSubmissionRequested"
      [] step = "response_retrieval" -> "ResponseRetrievalRequested"

\* C8: the steps are dispatched in the order project selection, chat selection,
\* prompt submission, response retrieval, each after the one before it returned;
\* chat selection is among them exactly when a chat title was given, so a call
\* without one that returns has run three steps and has no chat_selection result.
C8_StepsInOrder ==
    wf.pc # "idle" =>
        /\ Len(wf.steps) = Len(tasks)
        /\ Len(wf.steps) <= Len(StepsOf(wf.workflow))
        /\ \A k \in 1 .. Len(wf.steps) :
              /\ wf.steps[k] = StepsOf(wf.workflow)[k]
              /\ tasks[k].event.kind = StepKind(wf.steps[k])
              /\ k < Len(tasks) => tasks[k].pc = "done" /\ tasks[k].result.tag = "return"
        /\ wf.pc = "returned" =>
              /\ wf.steps = StepsOf(wf.workflow)
              /\ DOMAIN wf.results = {wf.steps[k] : k \in 1 .. Len(wf.steps)}
              /\ ("chat_selection" \in DOMAIN wf.results) <=>
                    (wf.workflow.chat_title \notin {None, Empty})

\* a workflow without a chat title returned after exactly three steps
C8_Witness ==
    /\ wf.pc = "returned"
    /\ wf.workflow.chat_title = None
    /\ Len(tasks) = 3
    /\ DOMAIN wf.results = {"project_selection", "prompt_submission", "response_retrieval"}
(***************************************************************************)
(* Properties of _generate_correlation_id (specification SpecDownload).    *)
(***************************************************************************)
\* the correlation ids _generate_correlation_id returned for the call's events
FreshIds == [k \in DOMAIN call.events |-> call.events[k].event.fields.correlation_id]

\* C12: the correlation ids one client generates are pairwise distinct: the
\* events download_multiple_google_images builds for a batch carry different
\* fresh ids, however quickly the calls of _generate_correlation_id follow
\* each other.
C12_FreshIdsUnique ==
    call.name # "idle" =>
        \A j, k \in DOMAIN FreshIds : j # k => FreshIds[j] # FreshIds[k]
(***************************************************************************)
(* Properties of the session (specification SpecSession).                  *)
(***************************************************************************)
\* C11: the asynchronous client has at most one open session at a time, created
\* by the first request that finds none and shared by the requests that follow
\* until close() releases it; every request attempt, under every interleaving of
\* concurrent requests and close(), goes out over the session that is open at
\* that moment (created then if there is none), never over a closed or missing
\* one.
C11_OneSessionPerOpenPeriod ==
    /\ session.cur \in {0, session.created}
    /\ \A n \in 1 .. session.created : n = session.cur \/ n \in session.closed
    /\ session.created <= Cardinality(session.closed) + 1
    /\ \A i \in AsyncTasks :
          \A k \in 1 .. Len(tasks[i].via) : tasks[i].via[k].live
====
